---- MODULE Spec2Model ----
(***************************************************************************)
(* Model of get_version.py, the PlatformIO pre-build script that resolves  *)
(* the firmware version and writes include/version.h.                      *)
(*                                                                         *)
(* The script runs top to bottom once per build invocation.  The model     *)
(* follows one run statement group by statement group (pc), and lets the   *)
(* build be invoked again so that claims about successive runs can be      *)
(* stated.  What survives a run is the file system and the clock; the      *)
(* script's own variables are re-initialised by Start.                     *)
(*                                                                         *)
(* Text is modelled as a sequence of one-character strings, so that        *)
(* lower(), strip(), strftime() and the f-string are computed character    *)
(* by character.                                                           *)
(***************************************************************************)
EXTENDS Integers, Sequences, FiniteSets, TLC

(***************************************************************************)
(* Bounds of the model.                                                    *)
(***************************************************************************)
\* Number of build invocations explored.
MaxRuns == 2

(***************************************************************************)
(* Text literals.                                                          *)
(***************************************************************************)
UpperAlpha == <<"A", "B", "C", "D", "E", "F", "G", "H", "I", "J", "K", "L", "M",
                "N", "O", "P", "Q", "R", "S", "T", "U", "V", "W", "X", "Y", "Z">>

LowerAlpha == <<"a", "b", "c", "d", "e", "f", "g", "h", "i", "j", "k", "l", "m",
                "n", "o", "p", "q", "r", "s", "t", "u", "v", "w", "x", "y", "z">>

DigitChars == <<"0", "1", "2", "3", "4", "5", "6", "7", "8", "9">>

\* The bytes bytes.strip() removes: ASCII whitespace (tab, line feed,
\* vertical tab, form feed, carriage return, space).
Whitespace == {9, 10, 11, 12, 13, 32}

\* The printable ASCII characters, from code 32 (space) to code 126 (~).
\* Code 96, the grave accent, cannot be written in a string here and is
\* spelled out.
AsciiPrintable ==
  <<" ", "!", "\"", "#", "$", "%", "&", "'", "(", ")", "*", "+", ",", "-", ".", "/",
    "0", "1", "2", "3", "4", "5", "6", "7", "8", "9", ":", ";", "<", "=", ">", "?",
    "@", "A", "B", "C", "D", "E", "F", "G", "H", "I", "J", "K", "L", "M", "N", "O",
    "P", "Q", "R", "S", "T", "U", "V", "W", "X", "Y", "Z", "[", "\\", "]", "^", "_",
    "GRAVE", "a", "b", "c", "d", "e", "f", "g", "h", "i", "j", "k", "l", "m", "n", "o",
    "p", "q", "r", "s", "t", "u", "v", "w", "x", "y", "z", "{", "|", "}", "~">>

Empty == << >>

TrueLit == <<"t", "r", "u", "e">>

FalseLit == <<"f", "a", "l", "s", "e">>

VersionFileName == "version.h"

DefaultIncludeDir == <<"include">>

(***************************************************************************)
(* The inputs a run can meet.                                              *)
(***************************************************************************)
\* Values of the CI environment variable (besides being unset).
CIValues ==
  { TrueLit, <<"T", "R", "U", "E">>, <<"T", "r", "u", "e">>,
    FalseLit, <<"1">>, <<"y", "e", "s">>, Empty, <<" ", "t", "r", "u", "e">> }

\* The CI variable as the process sees it: unset, or set to a value.
CIEnvs ==
  { [set |-> FALSE, value |-> Empty] } \cup { [set |-> TRUE, value |-> v] : v \in CIValues }

\* Tags the current revision can carry, as the bytes git prints:
\* v1.2.3 and v9.
Tags == { <<118, 49, 46, 50, 46, 51>>, <<118, 57>> }

\* Directories PROJECT_INCLUDE_DIR can name, as path segments.
ConfiguredDirs == { <<"gen", "inc">> }

IncludeDirs == ConfiguredDirs \cup { DefaultIncludeDir }

\* PROJECT_INCLUDE_DIR in the build environment: unset, or a directory.
DirSettings ==
  { [set |-> FALSE, value |-> Empty] } \cup { [set |-> TRUE, value |-> d] : d \in ConfiguredDirs }

\* Local clock readings, in chronological order.
Moments ==
  << [Y |-> 2025, Mo |-> 1,  D |-> 5,  H |-> 3,  Mi |-> 4,  S |-> 9],
     [Y |-> 2025, Mo |-> 10, D |-> 17, H |-> 2,  Mi |-> 32, S |-> 23],
     [Y |-> 2025, Mo |-> 12, D |-> 31, H |-> 23, Mi |-> 59, S |-> 59] >>

NoMoment == [Y |-> 0, Mo |-> 0, D |-> 0, H |-> 0, Mi |-> 0, S |-> 0]

(***************************************************************************)
(* Pure functions of the script.                                           *)
(***************************************************************************)
\* os.getenv(name, default)
getenv(e, default) == IF e.set THEN e.value ELSE default

LowerChar(c) ==
  IF \E i \in 1..Len(UpperAlpha) : UpperAlpha[i] = c
  THEN LowerAlpha[CHOOSE i \in 1..Len(UpperAlpha) : UpperAlpha[i] = c]
  ELSE c

\* str.lower()
lower(s) == [i \in 1..Len(s) |-> LowerChar(s[i])]

\* A comparison that forgets to fold case.
IsCI_CaseSensitive(e) == getenv(e, FalseLit) = TrueLit

\* is_ci = os.getenv("CI", "false").lower() == "true"
IsCI(e) == lower(getenv(e, FalseLit)) = TrueLit

RECURSIVE lstrip(_)
lstrip(s) == IF s # Empty /\ Head(s) \in Whitespace THEN lstrip(Tail(s)) ELSE s

RECURSIVE rstrip(_)
rstrip(s) ==
  IF s # Empty /\ s[Len(s)] \in Whitespace THEN rstrip(SubSeq(s, 1, Len(s) - 1)) ELSE s

\* The output taken as it comes.
strip_Nothing(s) == s

\* bytes.strip()
strip(s) == lstrip(rstrip(s))

\* What `git describe --tags --exact-match` prints for a tagged revision:
\* the tag and a line feed.
GitDescribeOutput(tag) == tag \o <<10>>

\* One byte below 128 as the character UTF-8 gives it.
Utf8Char(b) ==
  IF b = 9 THEN "\t"
  ELSE IF b = 10 THEN "\n"
  ELSE IF b = 12 THEN "\f"
  ELSE IF b = 13 THEN "\r"
  ELSE AsciiPrintable[b - 31]

\* bytes.decode("utf-8"), for ASCII bytes.
decode(bytes) == [i \in 1..Len(bytes) |-> Utf8Char(bytes[i])]

RECURSIVE Decimal(_)
\* The decimal digits of a natural number.
Decimal(n) ==
  IF n < 10 THEN <<DigitChars[n + 1]>>
  ELSE Decimal(n \div 10) \o <<DigitChars[(n % 10) + 1]>>

RECURSIVE ZeroPad(_, _)
ZeroPad(s, width) == IF Len(s) >= width THEN s ELSE ZeroPad(<<"0">> \o s, width)

\* A field printed without zero padding.
Field_Unpadded(n, width) == Decimal(n)

\* One numeric field of strftime (%Y is width 4, %m %d %H %M %S width 2).
Field(n, width) == ZeroPad(Decimal(n), width)

\* now.strftime("dev-%Y%m%d-%H%M%S")
strftime(now) ==
  <<"d", "e", "v", "-">> \o Field(now.Y, 4) \o Field(now.Mo, 2) \o Field(now.D, 2)
    \o <<"-">> \o Field(now.H, 2) \o Field(now.Mi, 2) \o Field(now.S, 2)

\* The f-string of the header.
HeaderContent(v) ==
  <<"#", "p", "r", "a", "g", "m", "a", " ", "o", "n", "c", "e", "\n",
    "\n",
    "#", "d", "e", "f", "i", "n", "e", " ", "F", "I", "R", "M", "W", "A", "R", "E",
    "_", "V", "E", "R", "S", "I", "O", "N", " ", "\"">> \o v \o <<"\"", "\n">>

\* env.get(key, default)
EnvGet(setting, default) == IF setting.set THEN setting.value ELSE default

\* os.path.join(include_dir, "version.h")
PathJoin(dir, name) == Append(dir, name)

\* The directory and all its ancestors.
Ancestors(dir) == { SubSeq(dir, 1, k) : k \in 1..Len(dir) }

\* Only the last segment is created.
makedirs_LeafOnly(existing, dir) == existing \cup { dir }

\* os.makedirs(dir): the directory with its missing parents.
makedirs(existing, dir) == existing \cup Ancestors(dir)

FilePaths == { PathJoin(d, VersionFileName) : d \in IncludeDirs }

NoFile == [exists |-> FALSE, data |-> Empty]

FileOf(data) == [exists |-> TRUE, data |-> data]

(***************************************************************************)
(* State.                                                                  *)
(***************************************************************************)
VARIABLES
  pc,                \* position of the running script; "idle"/"done" between runs
  runs,              \* number of build invocations started
  ciEnv,             \* the CI environment variable of this run
  dirSetting,        \* PROJECT_INCLUDE_DIR of this run's build environment
  is_ci,             \* script variable
  version,           \* script variable
  now,               \* script variable: the clock value read by the local branch
  header_content,    \* script variable
  include_dir,       \* script variable
  version_file_path, \* script variable
  gitResult,         \* what the git describe call of this run did
  gitCalls,          \* number of git describe calls of this run
  out,               \* lines printed by this run
  exitStatus,        \* exit status of the last finished run (-1: none yet)
  exitCalled,        \* this run ended through env.Exit
  raised,            \* this run ended through an uncaught exception
  dirs,              \* file system: existing directories
  files,             \* file system: version.h under each include directory
  clock,             \* index into Moments of the current local time
  fs0,               \* file system when this run started
  reachedWrite,      \* this run got as far as f.write
  prevLocal,         \* version of the local-mode run before the last one
  lastLocal,         \* version of the last local-mode run
  lastOk,            \* path and version of the most recent successful run
  lastOpen           \* per path: the most recent run that opened it for writing

scriptVars == <<is_ci, version, now, header_content, include_dir, version_file_path>>

runVars == <<ciEnv, dirSetting, gitResult, gitCalls, out, exitStatus, exitCalled, raised>>

fsVars == <<dirs, files>>

histVars == <<fs0, reachedWrite, prevLocal, lastLocal, lastOk, lastOpen>>

vars == <<pc, runs, scriptVars, runVars, fsVars, clock, histVars>>

NoGit == [kind |-> "none", tag |-> Empty]

NoRun == [valid |-> FALSE, path |-> Empty, version |-> Empty]

NeverOpened == [opened |-> FALSE, version |-> Empty, complete |-> FALSE]

Msg(kind) == [msg |-> kind, path |-> Empty, version |-> Empty]

\* A header left by an earlier build of a long version string.
StaleVersion == <<"v", "1", "0", ".", "2", "0", ".", "3", "0", "-", "r", "c", "1">>

\* File systems a first run can meet: nothing there, an empty include
\* directory, or an include directory holding an older version.h.
InitialFileSystems ==
  { [dirs |-> {}, files |-> [p \in FilePaths |-> NoFile]],
    [dirs |-> {DefaultIncludeDir}, files |-> [p \in FilePaths |-> NoFile]],
    [dirs |-> {DefaultIncludeDir},
     files |-> [p \in FilePaths |->
                  IF p = PathJoin(DefaultIncludeDir, VersionFileName)
                  THEN FileOf(HeaderContent(StaleVersion)) ELSE NoFile]] }

Init ==
  /\ pc = "idle"
  /\ runs = 0
  /\ ciEnv = [set |-> FALSE, value |-> Empty]
  /\ dirSetting = [set |-> FALSE, value |-> Empty]
  /\ is_ci = FALSE
  /\ version = Empty
  /\ now = NoMoment
  /\ header_content = Empty
  /\ include_dir = Empty
  /\ version_file_path = Empty
  /\ gitResult = NoGit
  /\ gitCalls = 0
  /\ out = << >>
  /\ exitStatus = -1
  /\ exitCalled = FALSE
  /\ raised = FALSE
  /\ \E fs \in InitialFileSystems :
       /\ dirs = fs.dirs
       /\ files = fs.files
       /\ fs0 = fs
  /\ clock = 1
  /\ reachedWrite = FALSE
  /\ prevLocal = Empty
  /\ lastLocal = Empty
  /\ lastOk = NoRun
  /\ lastOpen = [p \in FilePaths |-> NeverOpened]

(***************************************************************************)
(* How a run ends.                                                         *)
(***************************************************************************)
\* env.Exit(status): SCons raises SystemExit, the script stops here.
EnvExit(status) ==
  /\ pc' = "done"
  /\ exitStatus' = status
  /\ exitCalled' = TRUE
  /\ raised' = FALSE

\* An exception nobody catches: the interpreter ends the build with status 1.
Propagate ==
  /\ pc' = "done"
  /\ exitStatus' = 1
  /\ exitCalled' = FALSE
  /\ raised' = TRUE

(***************************************************************************)
(* The script, top to bottom.                                              *)
(***************************************************************************)
\* A build invocation starts the script: lines 11-15.
Start ==
  /\ pc \in {"idle", "done"}
  /\ runs < MaxRuns
  /\ runs' = runs + 1
  /\ \E e \in CIEnvs, s \in DirSettings :
       /\ ciEnv' = e
       /\ dirSetting' = s
       /\ is_ci' = IsCI(e)
       /\ pc' = IF IsCI(e) THEN "ci" ELSE "local"
  /\ version' = Empty
  /\ now' = NoMoment
  /\ header_content' = Empty
  /\ include_dir' = Empty
  /\ version_file_path' = Empty
  /\ gitResult' = NoGit
  /\ gitCalls' = 0
  /\ out' = << >>
  /\ exitStatus' = -1
  /\ exitCalled' = FALSE
  /\ raised' = FALSE
  /\ fs0' = [dirs |-> dirs, files |-> files]
  /\ reachedWrite' = FALSE
  /\ UNCHANGED <<fsVars, clock, prevLocal, lastLocal, lastOk, lastOpen>>

\* CI branch, git describe succeeds: lines 17-23.
GitDescribeOk ==
  /\ pc = "ci"
  /\ \E tag \in Tags :
       /\ gitResult' = [kind |-> "ok", tag |-> tag]
       /\ version' = decode(strip(GitDescribeOutput(tag)))
  /\ gitCalls' = gitCalls + 1
  /\ out' = Append(out, Msg("ci_detected"))
  /\ pc' = "render"
  /\ UNCHANGED <<runs, is_ci, now, header_content, include_dir, version_file_path,
                 ciEnv, dirSetting, exitStatus, exitCalled, raised, fsVars, clock, histVars>>

\* The handler prints and falls through to the rest of the script.
CalledProcessErrorHandler_FallThrough ==
  /\ pc = "ci"
  /\ gitResult' = [kind |-> "notag", tag |-> Empty]
  /\ gitCalls' = gitCalls + 1
  /\ out' = out \o <<Msg("ci_detected"), Msg("not_on_tag"), Msg("ci_needs_tag")>>
  /\ pc' = "render"
  /\ UNCHANGED <<runs, scriptVars, ciEnv, dirSetting, exitStatus, exitCalled, raised,
                 fsVars, clock, histVars>>

\* The handler asks git again instead of giving up.
CalledProcessErrorHandler_Retry ==
  /\ pc = "ci"
  /\ gitResult' = [kind |-> "notag", tag |-> Empty]
  /\ gitCalls' = gitCalls + 1
  /\ out' = out \o <<Msg("ci_detected"), Msg("not_on_tag"), Msg("ci_needs_tag")>>
  /\ IF gitCalls = 0
     THEN pc' = "ci" /\ UNCHANGED <<exitStatus, exitCalled, raised>>
     ELSE EnvExit(1)
  /\ UNCHANGED <<runs, scriptVars, ciEnv, dirSetting, fsVars, clock, histVars>>

\* CI branch, git describe exits non-zero (the revision carries no tag):
\* lines 17-23 and the handler, lines 24-30.
CalledProcessErrorHandler ==
  /\ pc = "ci"
  /\ gitResult' = [kind |-> "notag", tag |-> Empty]
  /\ gitCalls' = gitCalls + 1
  /\ out' = out \o <<Msg("ci_detected"), Msg("not_on_tag"), Msg("ci_needs_tag")>>
  /\ EnvExit(1)
  /\ UNCHANGED <<runs, scriptVars, ciEnv, dirSetting, fsVars, clock, histVars>>

\* The handler prints and falls through to the rest of the script.
FileNotFoundErrorHandler_FallThrough ==
  /\ pc = "ci"
  /\ gitResult' = [kind |-> "nogit", tag |-> Empty]
  /\ gitCalls' = gitCalls + 1
  /\ out' = out \o <<Msg("ci_detected"), Msg("git_not_found")>>
  /\ pc' = "render"
  /\ UNCHANGED <<runs, scriptVars, ciEnv, dirSetting, exitStatus, exitCalled, raised,
                 fsVars, clock, histVars>>

\* CI branch, the git executable is not found: lines 17-23 and the
\* handler, lines 31-34.
FileNotFoundErrorHandler ==
  /\ pc = "ci"
  /\ gitResult' = [kind |-> "nogit", tag |-> Empty]
  /\ gitCalls' = gitCalls + 1
  /\ out' = out \o <<Msg("ci_detected"), Msg("git_not_found")>>
  /\ EnvExit(1)
  /\ UNCHANGED <<runs, scriptVars, ciEnv, dirSetting, fsVars, clock, histVars>>

\* Local branch: lines 36-40.
LocalBranch ==
  /\ pc = "local"
  /\ out' = Append(out, Msg("local_detected"))
  /\ now' = Moments[clock]
  /\ version' = strftime(Moments[clock])
  /\ prevLocal' = lastLocal
  /\ lastLocal' = strftime(Moments[clock])
  /\ pc' = "render"
  /\ UNCHANGED <<runs, is_ci, header_content, include_dir, version_file_path,
                 ciEnv, dirSetting, gitResult, gitCalls, exitStatus, exitCalled, raised,
                 fsVars, clock, fs0, reachedWrite, lastOk, lastOpen>>

\* The header text and the output path: lines 43-50.
Render ==
  /\ pc = "render"
  /\ header_content' = HeaderContent(version)
  /\ include_dir' = EnvGet(dirSetting, DefaultIncludeDir)
  /\ version_file_path' = PathJoin(EnvGet(dirSetting, DefaultIncludeDir), VersionFileName)
  /\ pc' = "mkdir"
  /\ UNCHANGED <<runs, is_ci, version, now, runVars, fsVars, clock, histVars>>

\* os.path.isdir(include_dir)
isdir(dir) == dir \in dirs

\* The include directory is there or gets created: lines 53-54.
EnsureIncludeDir ==
  /\ pc = "mkdir"
  /\ dirs' = IF isdir(include_dir) THEN dirs ELSE makedirs(dirs, include_dir)
  /\ pc' = "open"
  /\ UNCHANGED <<runs, scriptVars, runVars, files, clock, histVars>>

\* os.makedirs raises (no permission, a file in the way, ...): line 54.
MakeDirsError ==
  /\ pc = "mkdir"
  /\ ~isdir(include_dir)
  /\ Propagate
  /\ UNCHANGED <<runs, scriptVars, ciEnv, dirSetting, gitResult, gitCalls, out,
                 fsVars, clock, histVars>>

\* The file is opened for appending: what is there stays.
OpenFile_Append ==
  /\ pc = "open"
  /\ isdir(include_dir)
  /\ files' = [files EXCEPT ![version_file_path] =
                 IF @.exists THEN @ ELSE FileOf(Empty)]
  /\ lastOpen' = [lastOpen EXCEPT ![version_file_path] =
                    [opened |-> TRUE, version |-> version, complete |-> FALSE]]
  /\ reachedWrite' = TRUE
  /\ pc' = "write"
  /\ UNCHANGED <<runs, scriptVars, runVars, dirs, clock, fs0, prevLocal, lastLocal, lastOk>>

\* open(version_file_path, "w"): the file is created or truncated: line 57.
OpenFile ==
  /\ pc = "open"
  /\ isdir(include_dir)
  /\ files' = [files EXCEPT ![version_file_path] = FileOf(Empty)]
  /\ lastOpen' = [lastOpen EXCEPT ![version_file_path] =
                    [opened |-> TRUE, version |-> version, complete |-> FALSE]]
  /\ reachedWrite' = TRUE
  /\ pc' = "write"
  /\ UNCHANGED <<runs, scriptVars, runVars, dirs, clock, fs0, prevLocal, lastLocal, lastOk>>

\* open raises (no permission, read-only file system, ...): line 57.
OpenError ==
  /\ pc = "open"
  /\ Propagate
  /\ UNCHANGED <<runs, scriptVars, ciEnv, dirSetting, gitResult, gitCalls, out,
                 fsVars, clock, histVars>>

\* f.write and the close of the with block: the text reaches the file: line 58.
WriteFile ==
  /\ pc = "write"
  /\ files' = [files EXCEPT ![version_file_path] = FileOf(@.data \o header_content)]
  /\ lastOpen' = [lastOpen EXCEPT ![version_file_path].complete = TRUE]
  /\ pc' = "confirm"
  /\ UNCHANGED <<runs, scriptVars, runVars, dirs, clock, fs0, reachedWrite,
                 prevLocal, lastLocal, lastOk>>

\* What a failed flush can leave of the text: nothing, or its first line.
PartialWrites(data) ==
  { Empty,
    SubSeq(data, 1, CHOOSE k \in 1..Len(data) :
                      data[k] = "\n" /\ \A j \in 1..(k - 1) : data[j] # "\n") }

\* The write or the flush on close raises (disk full, I/O error): line 58.
\* The file was already truncated by open; at most a part of the text is in it.
WriteError ==
  /\ pc = "write"
  /\ \E part \in PartialWrites(header_content) :
       files' = [files EXCEPT ![version_file_path] = FileOf(@.data \o part)]
  /\ Propagate
  /\ UNCHANGED <<runs, scriptVars, ciEnv, dirSetting, gitResult, gitCalls, out,
                 dirs, clock, histVars>>

\* The confirmation is printed and the script ends: line 60.
Confirm ==
  /\ pc = "confirm"
  /\ out' = Append(out, [msg |-> "generated", path |-> version_file_path,
                         version |-> version])
  /\ lastOk' = [valid |-> TRUE, path |-> version_file_path, version |-> version]
  /\ pc' = "done"
  /\ exitStatus' = 0
  /\ UNCHANGED <<runs, scriptVars, ciEnv, dirSetting, gitResult, gitCalls, exitCalled,
                 raised, fsVars, clock, fs0, reachedWrite, prevLocal, lastLocal, lastOpen>>

\* Time passes between two build invocations.
Tick ==
  /\ pc \in {"idle", "done"}
  /\ runs < MaxRuns
  /\ clock < Len(Moments)
  /\ clock' = clock + 1
  /\ UNCHANGED <<pc, runs, scriptVars, runVars, fsVars, histVars>>

Next ==
  \/ Start
  \/ GitDescribeOk
  \/ CalledProcessErrorHandler
  \/ FileNotFoundErrorHandler
  \/ LocalBranch
  \/ Render
  \/ EnsureIncludeDir
  \/ MakeDirsError
  \/ OpenFile
  \/ OpenError
  \/ WriteFile
  \/ WriteError
  \/ Confirm
  \/ Tick

Spec == Init /\ [][Next]_vars

(***************************************************************************)
(* Vocabulary of the properties.                                           *)
(***************************************************************************)
Finished == pc = "done"

Succeeded == pc = "done" /\ exitStatus = 0

\* The header as the specification lays it out: three lines, each ended
\* by a newline.
PragmaLine == <<"#", "p", "r", "a", "g", "m", "a", " ", "o", "n", "c", "e">>

DefineLine(v) ==
  <<"#", "d", "e", "f", "i", "n", "e", " ", "F", "I", "R", "M", "W", "A", "R", "E",
    "_", "V", "E", "R", "S", "I", "O", "N", " ">> \o <<"\"">> \o v \o <<"\"">>

RECURSIVE JoinLines(_)
JoinLines(lines) ==
  IF lines = << >> THEN Empty ELSE Head(lines) \o <<"\n">> \o JoinLines(Tail(lines))

ExpectedHeader(v) == JoinLines(<<PragmaLine, Empty, DefineLine(v)>>)

\* a is a leading part of b, and not all of it.
IsProperPrefix(a, b) == Len(a) < Len(b) /\ SubSeq(b, 1, Len(a)) = a

\* The confirmation of line 60 is among the printed lines.
Confirmed(path, v) ==
  \E i \in 1..Len(out) : out[i] = [msg |-> "generated", path |-> path, version |-> v]

NothingConfirmed == \A i \in 1..Len(out) : out[i].msg # "generated"

\* The names of the tags, as text.
TagName(tag) ==
  CASE tag = <<118, 49, 46, 50, 46, 51>> -> <<"v", "1", ".", "2", ".", "3">>
    [] tag = <<118, 57>> -> <<"v", "9">>
    [] OTHER -> Empty

WhitespaceChars == {" ", "\t", "\n", "\r", "\f"}

\* "true" in any mix of upper and lower case.
TrueIgnoringCase(v) ==
  /\ Len(v) = 4
  /\ v[1] \in {"t", "T"}
  /\ v[2] \in {"r", "R"}
  /\ v[3] \in {"u", "U"}
  /\ v[4] \in {"e", "E"}

IsDigit(c) == \E i \in 1..Len(DigitChars) : DigitChars[i] = c

DigitValue(c) == (CHOOSE i \in 1..Len(DigitChars) : DigitChars[i] = c) - 1

RECURSIVE NumValue(_)
\* The number a string of decimal digits denotes.
NumValue(s) ==
  IF s = << >> THEN 0 ELSE 10 * NumValue(SubSeq(s, 1, Len(s) - 1)) + DigitValue(s[Len(s)])

\* Characters of a version string in ASCII order.
AsciiOrder == <<"-", ".", "0", "1", "2", "3", "4", "5", "6", "7", "8", "9", "d", "e", "v">>

Ord(c) == CHOOSE i \in 1..Len(AsciiOrder) : AsciiOrder[i] = c

RECURSIVE StrLE(_, _)
\* a <= b as strings.
StrLE(a, b) ==
  IF a = << >> THEN TRUE
  ELSE IF b = << >> THEN FALSE
  ELSE IF Head(a) = Head(b) THEN StrLE(Tail(a), Tail(b))
  ELSE Ord(Head(a)) < Ord(Head(b))

(***************************************************************************)
(* C1                                                                      *)
(***************************************************************************)
\* C1: a CI run whose git describe call fails because the revision is not
\* exactly tagged ends at once with a non-zero exit status; it never gets
\* to the write, and directories and version.h are as they were when the
\* run started.
C1_UntaggedLeavesHeaderAlone ==
  gitResult.kind = "notag" =>
    /\ is_ci
    /\ pc = "done"
    /\ exitStatus > 0
    /\ ~reachedWrite
    /\ files = fs0.files
    /\ dirs = fs0.dirs

\* An untagged CI run has ended while an earlier version.h is in place.
C1_Witness ==
  /\ pc = "done"
  /\ gitResult.kind = "notag"
  /\ \E p \in FilePaths : files[p].exists /\ files[p].data # Empty

(***************************************************************************)
(* C2                                                                      *)
(***************************************************************************)
\* What C2 has in common in its original and its amended form: the abort
\* primitive is called exactly by the CI runs whose git query failed, and
\* a local run neither queries git nor calls it.
C2_AbortExactlyOnGitFailure ==
  /\ (pc = "done" =>
        ((exitCalled /\ exitStatus # 0) <=>
           (is_ci /\ gitResult.kind \in {"notag", "nogit"})))
  /\ (exitCalled => pc = "done" /\ exitStatus # 0)
  /\ (pc \notin {"idle", "ci"} /\ ~is_ci =>
        gitCalls = 0 /\ gitResult.kind = "none" /\ ~exitCalled)
  /\ (pc = "done" /\ ~is_ci /\ exitStatus # 0 => raised)

\* C2 as stated: besides the aborted runs and the local runs that failed on
\* an I/O error, every run ends with status 0.
C2_Original ==
  /\ C2_AbortExactlyOnGitFailure
  /\ (pc = "done" /\ ~exitCalled /\ ~(~is_ci /\ raised) => exitStatus = 0)

\* C2 amended: a run ends through env.Exit with a non-zero status exactly
\* when it is in CI mode and git describe failed; a local run never queries
\* git and never calls env.Exit; an I/O error from creating the directory
\* or writing the file propagates with a non-zero status in either mode
\* (in CI mode after a successful query); every remaining run ends with 0.
C2_Amended ==
  /\ C2_AbortExactlyOnGitFailure
  /\ (pc = "done" /\ ~exitCalled /\ ~raised => exitStatus = 0)
  /\ (raised =>
        /\ pc = "done"
        /\ exitStatus # 0
        /\ ~exitCalled
        /\ version_file_path # Empty
        /\ (is_ci => gitResult.kind = "ok"))

\* A CI run resolved its tag and then failed on an I/O error.
C2_Witness ==
  /\ pc = "done"
  /\ is_ci
  /\ gitResult.kind = "ok"
  /\ raised
  /\ exitStatus # 0

(***************************************************************************)
(* C3                                                                      *)
(***************************************************************************)
\* C3: the run takes the CI branch exactly when CI is set and its value is
\* "true" in some mix of upper and lower case; otherwise the local branch.
C3_ModeSelection ==
  pc # "idle" =>
    /\ is_ci <=> (ciEnv.set /\ TrueIgnoringCase(ciEnv.value))
    /\ (pc = "ci" => is_ci)
    /\ (pc = "local" => ~is_ci)
    /\ (gitCalls > 0 => is_ci)
    /\ (now # NoMoment => ~is_ci)
    /\ (pc \notin {"ci", "local"} => (gitCalls > 0 <=> is_ci) /\ (now # NoMoment <=> ~is_ci))

\* A run with CI=True took the CI branch and queried git.
C3_Witness ==
  /\ pc = "render"
  /\ ciEnv = [set |-> TRUE, value |-> <<"T", "r", "u", "e">>]
  /\ gitCalls = 1

C5_DevTimestamp ==
  ~is_ci /\ pc \notin {"idle", "local"} =>
    /\ \E i \in 1..Len(Moments) : now = Moments[i]
    /\ (pc # "done" => now = Moments[clock])
    /\ Len(version) = 19
    /\ SubSeq(version, 1, 4) = <<"d", "e", "v", "-">>
    /\ \A i \in (5..12) \cup (14..19) : IsDigit(version[i])
    /\ version[13] = "-"
    /\ NumValue(SubSeq(version, 5, 8)) = now.Y
    /\ NumValue(SubSeq(version, 9, 10)) = now.Mo
    /\ NumValue(SubSeq(version, 11, 12)) = now.D
    /\ NumValue(SubSeq(version, 14, 15)) = now.H
    /\ NumValue(SubSeq(version, 16, 17)) = now.Mi
    /\ NumValue(SubSeq(version, 18, 19)) = now.S

\* A local run at 2025-01-05 03:04:09, where every two-digit field needs
\* its leading zero, has resolved its version.
C5_Witness ==
  /\ ~is_ci
  /\ pc = "render"
  /\ now = [Y |-> 2025, Mo |-> 1, D |-> 5, H |-> 3, Mi |-> 4, S |-> 9]
  /\ Len(version) = 19

(***************************************************************************)
(* C6                                                                      *)
(***************************************************************************)
\* C6: two successive local runs produce two different version strings,
\* and the later one is not smaller than the earlier one.
C6_SuccessiveLocalVersionsDiffer ==
  prevLocal # Empty /\ lastLocal # Empty =>
    /\ prevLocal # lastLocal
    /\ StrLE(prevLocal, lastLocal)

(***************************************************************************)
(* C7                                                                      *)
(***************************************************************************)
\* C7 as stated: between runs, version.h holds exactly the header rendered
\* from the version of the most recent successful run.
C7_Original ==
  pc \in {"idle", "done"} /\ lastOk.valid =>
    files[lastOk.path] = [exists |-> TRUE, data |-> ExpectedHeader(lastOk.version)]

\* C7 amended: between runs, a version.h this script has opened holds
\* exactly the header rendered from the version of the most recent run that
\* opened it for writing when that run's write succeeded, and only an
\* incomplete leading part of that header (possibly nothing) when that
\* run's write failed; either way the open replaced the whole file, so no
\* character of an earlier version string remains.
C7_Amended ==
  pc \in {"idle", "done"} =>
    \A p \in FilePaths :
      lastOpen[p].opened =>
        /\ files[p].exists
        /\ IF lastOpen[p].complete
           THEN files[p].data = ExpectedHeader(lastOpen[p].version)
           ELSE IsProperPrefix(files[p].data, ExpectedHeader(lastOpen[p].version))
        /\ (lastOpen[p].complete /\ lastOk.valid /\ lastOk.path = p =>
              lastOk.version = lastOpen[p].version)

\* A run has completed over the header of a longer version string.
C7_Witness ==
  /\ Succeeded
  /\ fs0.files[version_file_path].exists
  /\ Len(fs0.files[version_file_path].data) > Len(files[version_file_path].data)
  /\ lastOpen[version_file_path].complete

FullSuccess ==
  /\ exitStatus = 0
  /\ version # Empty
  /\ files[version_file_path] = [exists |-> TRUE, data |-> ExpectedHeader(version)]
  /\ Confirmed(version_file_path, version)

\* The build was aborted: non-zero status, no confirmation, version.h not
\* written by this run.
CleanAbort ==
  /\ exitStatus # 0
  /\ NothingConfirmed
  /\ files = fs0.files

\* The write failed after the file was opened: non-zero status, no
\* confirmation, version.h left with an incomplete leading part of the
\* header.
BrokenWrite ==
  /\ exitStatus # 0
  /\ raised
  /\ reachedWrite
  /\ NothingConfirmed
  /\ files[version_file_path].exists
  /\ IsProperPrefix(files[version_file_path].data, ExpectedHeader(version))
  /\ \A q \in FilePaths \ {version_file_path} : files[q] = fs0.files[q]

\* The confirmation is printed only once the complete header is in place,
\* and git is queried at most once per run.
C9_ConfirmLastQueryOnce ==
  /\ gitCalls <= 1
  /\ (~NothingConfirmed => FullSuccess)

\* C9 as stated: every run ends either fully successful or aborted with
\* version.h not written by it.
C9_Original ==
  /\ C9_ConfirmLastQueryOnce
  /\ (pc = "done" => FullSuccess \/ CleanAbort)

\* C9 amended: every run ends in one of three ways: it fully succeeds; it
\* aborts the build with no confirmation and version.h not written by it;
\* or its write fails on an I/O error after the file was opened, with no
\* confirmation and version.h truncated to an incomplete leading part of
\* the header.  Git is queried at most once per run and never retried.
C9_Amended ==
  /\ C9_ConfirmLastQueryOnce
  /\ (pc = "done" => FullSuccess \/ CleanAbort \/ BrokenWrite)

\* A run ended on a failed write, after a run that had fully succeeded.
C9_Witness ==
  /\ pc = "done"
  /\ BrokenWrite
  /\ lastOk.valid
  /\ lastOk.path = version_file_path

(***************************************************************************)
(* C10                                                                     *)
(***************************************************************************)
\* C10: no version.h ever carries the empty initial value of the version
\* variable: from the rendering of the header on, the version is the tag
\* git returned or the dev-timestamp string.
C10_NeverEmptyVersion ==
  /\ \A p \in FilePaths :
       files[p].exists =>
         files[p].data # JoinLines(<<PragmaLine, Empty, DefineLine(Empty)>>)
  /\ (pc \in {"render", "mkdir", "open", "write", "confirm"} \/ reachedWrite =>
        /\ version # Empty
        /\ (is_ci => gitResult.kind = "ok" /\ version = TagName(gitResult.tag))
        /\ (~is_ci => version = lastLocal /\ SubSeq(version, 1, 4) = <<"d", "e", "v", "-">>))

\* A CI run is about to write the header of its tag.
C10_Witness ==
  /\ pc = "write"
  /\ is_ci
  /\ version = <<"v", "9">>
  /\ header_content = ExpectedHeader(<<"v", "9">>)

====
